---- MODULE Spec2Model ----
(***************************************************************************)
(* The entry store of stream-run (entries/entries.go): entities of kind    *)
(* "Entry" kept in Cloud Datastore under a name key, with the operations   *)
(* Get, Insert, Update, Delete and List.                                   *)
(*                                                                         *)
(* The datastore client is the environment of the package.  It is modelled *)
(* by its contract: Put writes the entity under the key whether or not the *)
(* key exists (upsert), Delete removes the key and reports no error for an *)
(* absent key, Get reports ErrNoSuchEntity for an absent key, and a query  *)
(* orders, then skips Offset results, then returns at most Limit results.  *)
(* Every call may also fail as a whole (storage failure).                  *)
(***************************************************************************)
EXTENDS Integers, Sequences, FiniteSets, TLC

(* ------------------------------ bounds -------------------------------- *)
\* Largest clock reading (the clock stops advancing there).
MaxTime == 1
\* Number of store calls in one behaviour.
MaxOps == 3
\* Largest limit and offset handed to List.
MaxN == 1
MaxOff == 1
\* Number of HTTP requests that arrive in one behaviour.
MaxReqs == 3
\* Largest limit a reader of the index pages with.
MaxLimit == 2

\* Form values: "a" + "b" and "ab" + "" concatenate to the same string.
Contents == {"a", "ab"}
Titles == {"b", ""}
\* An id no Insert ever issues.
UnknownId == "nope"

\* Errors of the store operations.
NoErr == "nil"
NotFound == "NotFound"
StorageFailure == "StorageFailure"
\* ctx.Err() of a cancelled context.
Canceled == "context canceled"

\* failAt value of a List whose iterator never fails.
NoFail == -1

VARIABLES
    store,   \* the datastore: key name -> Entry entity (title, content, created)
    now,     \* the latest reading of the wall clock
    last,    \* the latest store call: operation, arguments, returned error and entries
    live,    \* history: the successful Inserts whose id was not deleted since
    issued,  \* history: the ids returned by successful Inserts
    edited,  \* history: some Update has written
    nops,    \* number of store calls so far
    req,     \* the HTTP requests being handled: slot -> the handler's locals
    writer,  \* history: key name -> the latest request that wrote it (kind, form)
    nreq,    \* number of requests that have arrived
    cancelled, \* the ctx of the latest store call was cancelled while it ran
    walk     \* a reader paging through the index: limit, offset, entries seen

vars == <<store, now, last, live, issued, edited, nops, req, writer, nreq,
          cancelled, walk>>

\* The state of the HTTP layer, which the Entries methods never touch.
hvars == <<req, writer, nreq, walk>>

(* ------------------------------ helpers ------------------------------- *)
Min(a, b) == IF a < b THEN a ELSE b

Digit(d) == <<"0", "1", "2", "3", "4", "5", "6", "7", "8", "9">>[d + 1]

RECURSIVE Itoa(_)
Itoa(n) == IF n < 10 THEN Digit(n) ELSE Itoa(n \div 10) \o Digit(n % 10)

\* time.Time.Format(time.RFC3339Nano): one string per instant, and no such
\* string is a proper suffix of another, so c + t + Format(x) determines x.
Format(t) == "T" \o Itoa(t)

\* fmt.Sprintf("%x", md5.Sum(b)): the digest is taken to be collision free.
md5Hex(s) == "md5:" \o s

\* time.Now(): the wall clock never runs backwards between two readings of
\* the model, and two readings may be equal.
Readings(t) == {x \in t..(t + 1) : x <= MaxTime}

RECURSIVE SetToSeq(_)
SetToSeq(S) ==
    IF S = {} THEN <<>>
    ELSE LET x == CHOOSE y \in S : TRUE IN <<x>> \o SetToSeq(S \ {x})

\* Every key name of the model, in the datastore's (fixed) key order.
AllKeys ==
    {md5Hex(c \o t \o Format(x)) : c \in Contents, t \in Titles, x \in 0..MaxTime}
        \cup {UnknownId}

KeyOrder == SetToSeq(AllKeys)

KeyRanks == [k \in AllKeys |-> CHOOSE i \in 1..Len(KeyOrder) : KeyOrder[i] = k]

KeyRank(k) == KeyRanks[k]

(* ----------------------- the datastore client ------------------------- *)
\* Client.Put(key, entity): upsert.
Put(st, key, entity) ==
    [k \in DOMAIN st \cup {key} |-> IF k = key THEN entity ELSE st[k]]

\* A Delete that removes nothing.
DeleteKeyKeeps(st, key) == st

\* Client.Delete(key): the key is gone afterwards; an absent key is no error.
DeleteKey(st, key) == [k \in DOMAIN st \ {key} |-> st[k]]

\* Order("-created"): created descending, ties in key order.
Before(st, a, b) ==
    \/ st[a].created > st[b].created
    \/ st[a].created = st[b].created /\ KeyRank(a) < KeyRank(b)

RECURSIVE OrderKeys(_, _)
OrderKeys(st, S) ==
    IF S = {} THEN <<>>
    ELSE LET k == CHOOSE a \in S : \A b \in S \ {a} : Before(st, a, b)
         IN <<k>> \o OrderKeys(st, S \ {k})

OrderByCreatedDesc(st) == OrderKeys(st, DOMAIN st)

\* Limit applied before Offset (a wrong query plan).
RunQueryLimitFirst(st, n, offset) ==
    LET keys == OrderByCreatedDesc(st)
        firstN == SubSeq(keys, 1, Min(n, Len(keys)))
    IN SubSeq(firstN, offset + 1, Len(firstN))

\* NewQuery(ENTRY).Order("-created").Limit(n).Offset(offset), n, offset >= 0:
\* the keys of the results, in order.
RunQuery(st, n, offset) ==
    LET keys == OrderByCreatedDesc(st)
    IN SubSeq(keys, offset + 1, Min(offset + n, Len(keys)))

(* ------------------------------ entries ------------------------------- *)
\* The entity Insert writes.
InsertEntry(content, title, t) ==
    [title |-> title, content |-> content, created |-> t]

\* An Update that writes the form values into the wrong fields.
UpdateEntrySwapped(content, title, t) ==
    [title |-> content, content |-> title, created |-> t]

\* The entity Update writes.
UpdateEntry(content, title, t) ==
    [title |-> title, content |-> content, created |-> t]

\* The *Entry a caller receives: the loaded entity with ID set to the key name.
Loaded(st, k) ==
    [ID |-> k, title |-> st[k].title, content |-> st[k].content,
     created |-> st[k].created]

\* Entries.Get: the error and the entry (none on error).
Get(st, id, ok) ==
    IF ~ok THEN [err |-> StorageFailure, res |-> <<>>]
    ELSE IF id \notin DOMAIN st THEN [err |-> NotFound, res |-> <<>>]
    ELSE [err |-> NoErr, res |-> <<Loaded(st, id)>>]

\* Entries.List: the entries read before the iterator is done or fails;
\* failAt is the number of entries read before it fails, NoFail if it never does.
List(st, n, offset, failAt) ==
    LET keys == RunQuery(st, n, offset)
        upto == IF failAt = NoFail THEN Len(keys) ELSE Min(failAt, Len(keys))
    IN [i \in 1..upto |-> Loaded(st, keys[i])]

\* The key name Insert derives.
InsertKey(content, title, t) == md5Hex(content \o title \o Format(t))

Call(op, id, content, title, n, offset, existed, err, res) ==
    [op |-> op, id |-> id, content |-> content, title |-> title, n |-> n,
     offset |-> offset, existed |-> existed, err |-> err, res |-> res]

\* The ids a caller may name: those in the store, those issued, one unknown.
KnownIds == DOMAIN store \cup issued \cup {UnknownId}

(* ------------------------------ requests ------------------------------ *)
\* The requests handled at the same time: two goroutines of the server.
Reqs == {1, 2}

\* A slot no request has arrived in yet.
Idle ==
    [kind |-> "idle", admin |-> FALSE, content |-> "", title |-> "", id |-> "",
     pc |-> "idle", raw |-> <<>>, links |-> <<>>, idx |-> 0, log |-> <<>>,
     out |-> "", werr |-> FALSE, resp |-> "none"]

\* No reader is paging.
NoWalk == [limit |-> 0, offset |-> 0, seen |-> <<>>, cut |-> FALSE]

(* ------------------------------ actions ------------------------------- *)
Init ==
    /\ store = <<>>
    /\ now = 0
    /\ last = Call("none", "", "", "", 0, 0, FALSE, NoErr, <<>>)
    /\ live = <<>>
    /\ issued = {}
    /\ edited = FALSE
    /\ nops = 0
    /\ req = [r \in Reqs |-> Idle]
    /\ writer = <<>>
    /\ nreq = 0
    /\ cancelled = FALSE
    /\ walk = NoWalk

\* Entries.Insert(ctx, content, title): t1 is the clock reading the key is
\* derived from, t2 the later reading stored as Created.
Insert(content, title, t1, t2, ok) ==
    /\ nops < MaxOps
    /\ LET key == InsertKey(content, title, t1)
       IN /\ store' = IF ok THEN Put(store, key, InsertEntry(content, title, t2))
                      ELSE store
          /\ last' = Call("Insert", key, content, title, 0, 0, key \in DOMAIN store,
                          IF ok THEN NoErr ELSE StorageFailure, <<>>)
          /\ live' = IF ok
                     THEN Append(live, [id |-> key, content |-> content,
                                        title |-> title, created |-> t2])
                     ELSE live
          /\ issued' = IF ok THEN issued \cup {key} ELSE issued
    /\ now' = t2
    /\ nops' = nops + 1
    /\ UNCHANGED <<edited, hvars>>

\* Entries.Update(ctx, id, content, title).
Update(id, content, title, t, ok) ==
    /\ nops < MaxOps
    /\ store' = IF ok THEN Put(store, id, UpdateEntry(content, title, t)) ELSE store
    /\ last' = Call("Update", id, content, title, 0, 0, id \in DOMAIN store,
                    IF ok THEN NoErr ELSE StorageFailure, <<>>)
    /\ edited' = (edited \/ ok)
    /\ now' = t
    /\ nops' = nops + 1
    /\ UNCHANGED <<live, issued, hvars>>

\* Entries.Delete(ctx, id).
Delete(id, ok) ==
    /\ nops < MaxOps
    /\ store' = IF ok THEN DeleteKey(store, id) ELSE store
    /\ last' = Call("Delete", id, "", "", 0, 0, id \in DOMAIN store,
                    IF ok THEN NoErr ELSE StorageFailure, <<>>)
    /\ live' = IF ok THEN SelectSeq(live, LAMBDA g : g.id # id) ELSE live
    /\ nops' = nops + 1
    /\ UNCHANGED <<now, issued, edited, hvars>>

\* Entries.Get(ctx, id).
GetEntry(id, ok) ==
    /\ nops < MaxOps
    /\ LET r == Get(store, id, ok)
       IN last' = Call("Get", id, "", "", 0, 0, id \in DOMAIN store, r.err, r.res)
    /\ nops' = nops + 1
    /\ UNCHANGED <<store, now, live, issued, edited, hvars>>

\* A List that returns the failure of its iterator.
ListEntriesReportsFailure(n, offset, failAt) ==
    /\ nops < MaxOps
    /\ last' = Call("List", "", "", "", n, offset, FALSE,
                    IF failAt # NoFail /\ failAt < Len(RunQuery(store, n, offset))
                    THEN StorageFailure ELSE NoErr,
                    List(store, n, offset, failAt))
    /\ nops' = nops + 1
    /\ UNCHANGED <<store, now, live, issued, edited, hvars>>

\* Entries.List(ctx, n, offset): the error returned is always nil.
ListEntries(n, offset, failAt) ==
    /\ nops < MaxOps
    /\ last' = Call("List", "", "", "", n, offset, FALSE, NoErr,
                    List(store, n, offset, failAt))
    /\ nops' = nops + 1
    /\ UNCHANGED <<store, now, live, issued, edited, hvars>>

Next ==
    \/ \E c \in Contents, t \in Titles, ok \in BOOLEAN :
         \E t1 \in Readings(now) : \E t2 \in Readings(t1) :
           Insert(c, t, t1, t2, ok) /\ UNCHANGED cancelled
    \/ \E id \in KnownIds, c \in Contents, t \in Titles, ok \in BOOLEAN :
         \E x \in Readings(now) : Update(id, c, t, x, ok) /\ UNCHANGED cancelled
    \/ \E id \in KnownIds, ok \in BOOLEAN : Delete(id, ok) /\ UNCHANGED cancelled
    \/ \E id \in KnownIds, ok \in BOOLEAN : GetEntry(id, ok) /\ UNCHANGED cancelled
    \/ \E n \in 0..MaxN, k \in 0..MaxOff, f \in {NoFail} \cup 0..MaxN :
         ListEntries(n, k, f) /\ UNCHANGED cancelled

Spec == Init /\ [][Next]_vars

(***************************************************************************)
(* The HTTP layer (stream.go): adminNewHandler, adminEditHandler and       *)
(* sendWebMentions.  A request is a process; a step is one call of the     *)
(* store or of a remote server together with the local code up to the next *)
(* such call, so the requests interleave at these calls.                   *)
(*                                                                         *)
(* req[r].log is what the request has sent out, in order; req[r].out the   *)
(* outcome of its latest remote call; req[r].werr whether its store write  *)
(* failed; req[r].resp the status the caller receives ("aborted" when the  *)
(* handler panicked and the server dropped the connection).                *)
(***************************************************************************)

\* The form values of a request.
Forms == {<<"a", "b">>, <<"ab", "">>}

\* toDisplayContent and webmention.DiscoverLinksFromReader: the links of the
\* rendered content (content "a" stands for a text with two links, "ab" for
\* one without a link).
LinksOf(content) == IF content = "a" THEN <<"l1", "l2">> ELSE <<>>

permalinkFromId(id) == "/entry/" \o id

Event(ev, q, link) == [ev |-> ev, link |-> link, source |-> permalinkFromId(q.id)]

\* The handler is over: its locals are gone; what it sent out and what the
\* caller received remain.
Done(q, resp) ==
    [q EXCEPT !.pc = "done", !.resp = resp, !.raw = <<>>, !.links = <<>>, !.idx = 0]

\* sendWebMentions has returned (err or nil, which the handlers only log):
\* adminNewHandler redirects, adminEditHandler renders the edit page; a status
\* already written stays.
Respond(q) ==
    Done(q, IF q.resp # "none" THEN q.resp
            ELSE IF q.kind = "new" THEN "302" ELSE "200")

\* adminNewHandler after Insert: a failure is answered with 500, and the
\* handler goes on to sendWebMentions either way.
AfterInsert(q, key, ok) ==
    [q EXCEPT !.id = key, !.werr = ~ok, !.resp = IF ok THEN "none" ELSE "500",
              !.pc = "links"]

\* adminEditHandler after Get: 404 on an error, else the action of the form.
AfterGet(q, r) ==
    IF r.err # NoErr THEN Done(q, "404")
    ELSE [q EXCEPT !.raw = r.res, !.pc = q.kind]

\* An edit that keeps the title it loaded.
EditedKeepsTitle(raw, content, title) ==
    [raw EXCEPT !.content = content]

\* adminEditHandler, action "update": raw.Title and raw.Content are set from
\* the form.
Edited(raw, content, title) ==
    [raw EXCEPT !.title = title, !.content = content]

\* adminEditHandler after Update.
AfterUpdate(q, ok) ==
    IF ok THEN [q EXCEPT !.pc = "links"]
    ELSE [Done(q, "500") EXCEPT !.werr = TRUE]

\* adminEditHandler after Delete.
AfterDelete(q, ok) ==
    IF ok THEN Done(q, "302") ELSE [Done(q, "500") EXCEPT !.werr = TRUE]

\* A link discovery whose parse error is logged and passed over.
AfterDiscoverLinksGoesOn(q, ok) ==
    [q EXCEPT !.out = IF ok THEN "links" ELSE "parseerror",
              !.log = Append(q.log, Event("links", q, "")),
              !.pc = "hub"]

\* sendWebMentions, DiscoverLinksFromReader: a parse error is returned.
AfterDiscoverLinks(q, ok) ==
    LET logged == [q EXCEPT !.log = Append(q.log, Event("links", q, ""))]
    IN IF ~ok THEN Respond([logged EXCEPT !.out = "parseerror"])
       ELSE [logged EXCEPT !.out = "links", !.links = LinksOf(q.content),
                           !.idx = 1,
                           !.pc = IF LinksOf(q.content) = <<>> THEN "hub"
                                  ELSE "endpoint"]

\* An endpoint discovery that is tried again after a failure.
AfterEndpointRetries(q, ok) ==
    LET logged == [q EXCEPT !.log = Append(q.log, Event("endpoint", q, q.links[q.idx]))]
    IN IF ~ok THEN [logged EXCEPT !.out = "noendpoint"]
       ELSE [logged EXCEPT !.out = "endpoint", !.pc = "send"]

\* sendWebMentions, DiscoverEndpoint(link): an error is returned.
AfterEndpoint(q, ok) ==
    LET logged == [q EXCEPT !.log = Append(q.log, Event("endpoint", q, q.links[q.idx]))]
    IN IF ~ok THEN Respond([logged EXCEPT !.out = "noendpoint"])
       ELSE [logged EXCEPT !.out = "endpoint", !.pc = "send"]

\* A send whose transport error is returned to the caller.
AfterSendReturnsError(q, outcome) ==
    LET logged == [q EXCEPT !.log = Append(q.log, Event("send", q, q.links[q.idx])),
                            !.out = outcome]
    IN IF outcome = "error" THEN Respond(logged)
       ELSE [logged EXCEPT !.idx = q.idx + 1,
                           !.pc = IF q.idx < Len(q.links) THEN "endpoint" ELSE "hub"]

\* sendWebMentions, SendWebmention(endpoint, source, link): every outcome
\* ("sent", "error", "status400") is logged and the loop goes on.
AfterSend(q, outcome) ==
    [q EXCEPT !.log = Append(q.log, Event("send", q, q.links[q.idx])),
              !.out = outcome,
              !.idx = q.idx + 1,
              !.pc = IF q.idx < Len(q.links) THEN "endpoint" ELSE "hub"]

\* sendWebMentions, client.PostForm(websubUrl, ...): on "error" resp is nil
\* and resp.StatusCode panics; on "ok" and "badstatus" nil is returned.
AfterHub(q, outcome) ==
    LET logged == [q EXCEPT !.log = Append(q.log, Event("hub", q, "")),
                            !.out = "hub" \o outcome]
    IN IF outcome = "error" THEN Done(logged, "aborted") ELSE Respond(logged)

StoreHistory == <<last, live, issued, edited, nops, cancelled>>

\* What a request leaves in the write history.
Wrote(q) == [kind |-> q.kind, content |-> q.content, title |-> q.title]

\* An arrival that is let in without the admin check.
ArriveAnyone(r, kind, admin, form, id) ==
    /\ nreq < MaxReqs
    /\ req[r].pc = "idle"
    /\ \A p \in Reqs : p < r => req[p].pc # "idle"
    /\ nreq' = nreq + 1
    /\ req' = [req EXCEPT ![r] =
                 [Idle EXCEPT !.kind = kind, !.admin = admin,
                              !.content = IF kind # "delete" THEN form[1] ELSE "",
                              !.title = IF kind # "delete" THEN form[2] ELSE "",
                              !.id = IF kind # "new" THEN id ELSE "",
                              !.pc = IF kind = "new" THEN "insert" ELSE "get"]]
    /\ UNCHANGED <<store, now, writer, StoreHistory, walk>>

\* A request arrives and takes the first free goroutine; one that is not from
\* an admin is answered with 401 before anything of it is read, and a delete
\* reads no form value but the action.
Arrive(r, kind, admin, form, id) ==
    /\ nreq < MaxReqs
    /\ req[r].pc = "idle"
    /\ \A p \in Reqs : p < r => req[p].pc # "idle"
    /\ nreq' = nreq + 1
    /\ LET read == admin /\ kind # "delete"
           q == [Idle EXCEPT !.kind = kind, !.admin = admin,
                             !.content = IF read THEN form[1] ELSE "",
                             !.title = IF read THEN form[2] ELSE "",
                             !.id = IF admin /\ kind # "new" THEN id ELSE ""]
       IN req' = [req EXCEPT ![r] =
                     IF ~admin THEN Done(q, "401")
                     ELSE [q EXCEPT !.pc = IF kind = "new" THEN "insert" ELSE "get"]]
    /\ UNCHANGED <<store, now, writer, StoreHistory, walk>>

\* The handler has returned and the response is with the caller.
Retire(r) ==
    /\ req[r].pc = "done"
    /\ req' = [req EXCEPT ![r] = Idle]
    /\ UNCHANGED <<store, now, writer, nreq, StoreHistory, walk>>

\* adminNewHandler: entryDB.Insert.
HInsert(r, t1, t2, ok) ==
    /\ req[r].pc = "insert"
    /\ LET key == InsertKey(req[r].content, req[r].title, t1)
       IN /\ store' = IF ok
                      THEN Put(store, key, InsertEntry(req[r].content, req[r].title, t2))
                      ELSE store
          /\ writer' = IF ok THEN Put(writer, key, Wrote(req[r])) ELSE writer
          /\ req' = [req EXCEPT ![r] = AfterInsert(req[r], key, ok)]
    /\ now' = t2
    /\ UNCHANGED <<nreq, StoreHistory, walk>>

\* adminEditHandler: entryDB.Get.
HGet(r, ok) ==
    /\ req[r].pc = "get"
    /\ req' = [req EXCEPT ![r] = AfterGet(req[r], Get(store, req[r].id, ok))]
    /\ UNCHANGED <<store, now, writer, nreq, StoreHistory, walk>>

\* adminEditHandler, action "update": entryDB.Update of the edited entry.
HUpdate(r, t, ok) ==
    /\ req[r].pc = "update"
    /\ LET e == Edited(req[r].raw[1], req[r].content, req[r].title)
       IN store' = IF ok THEN Put(store, e.ID, UpdateEntry(e.content, e.title, t))
                   ELSE store
    /\ writer' = IF ok THEN Put(writer, req[r].id, Wrote(req[r])) ELSE writer
    /\ req' = [req EXCEPT ![r] = AfterUpdate(req[r], ok)]
    /\ now' = t
    /\ UNCHANGED <<nreq, StoreHistory, walk>>

\* adminEditHandler, action "delete": entryDB.Delete.
HDelete(r, ok) ==
    /\ req[r].pc = "delete"
    /\ store' = IF ok THEN DeleteKey(store, req[r].id) ELSE store
    /\ writer' = IF ok THEN Put(writer, req[r].id, Wrote(req[r])) ELSE writer
    /\ req' = [req EXCEPT ![r] = AfterDelete(req[r], ok)]
    /\ UNCHANGED <<now, nreq, StoreHistory, walk>>

\* sendWebMentions: the links of the content.
HDiscoverLinks(r, ok) ==
    /\ req[r].pc = "links"
    /\ req' = [req EXCEPT ![r] = AfterDiscoverLinks(req[r], ok)]
    /\ UNCHANGED <<store, now, writer, nreq, StoreHistory, walk>>

\* sendWebMentions: the endpoint of the next link.
HEndpoint(r, ok) ==
    /\ req[r].pc = "endpoint"
    /\ req' = [req EXCEPT ![r] = AfterEndpoint(req[r], ok)]
    /\ UNCHANGED <<store, now, writer, nreq, StoreHistory, walk>>

\* sendWebMentions: the webmention for the link.
HSend(r, outcome) ==
    /\ req[r].pc = "send"
    /\ req' = [req EXCEPT ![r] = AfterSend(req[r], outcome)]
    /\ UNCHANGED <<store, now, writer, nreq, StoreHistory, walk>>

\* A hub notify that does not wait for the links.
HHubBeforeLinks(r, outcome) ==
    /\ req[r].pc \in {"endpoint", "hub"}
    /\ req' = [req EXCEPT ![r] = AfterHub(req[r], outcome)]
    /\ UNCHANGED <<store, now, writer, nreq, StoreHistory, walk>>

\* sendWebMentions: the WebSub hub.
HHub(r, outcome) ==
    /\ req[r].pc = "hub"
    /\ req' = [req EXCEPT ![r] = AfterHub(req[r], outcome)]
    /\ UNCHANGED <<store, now, writer, nreq, StoreHistory, walk>>

NextH ==
    \/ \E r \in Reqs : Retire(r)
    \/ \E r \in Reqs, kind \in {"new", "update", "delete"}, admin \in BOOLEAN,
          form \in Forms, id \in DOMAIN store \cup {UnknownId} :
         Arrive(r, kind, admin, form, id)
    \/ \E r \in Reqs, ok \in BOOLEAN :
         \E t1 \in Readings(now) : \E t2 \in Readings(t1) : HInsert(r, t1, t2, ok)
    \/ \E r \in Reqs, ok \in BOOLEAN : HGet(r, ok)
    \/ \E r \in Reqs, ok \in BOOLEAN : \E t \in Readings(now) : HUpdate(r, t, ok)
    \/ \E r \in Reqs, ok \in BOOLEAN : HDelete(r, ok)
    \/ \E r \in Reqs, ok \in BOOLEAN : HDiscoverLinks(r, ok)
    \/ \E r \in Reqs, ok \in BOOLEAN : HEndpoint(r, ok)
    \/ \E r \in Reqs, outcome \in {"sent", "error", "status400"} : HSend(r, outcome)
    \/ \E r \in Reqs, outcome \in {"ok", "badstatus", "error"} : HHub(r, outcome)

SpecH == Init /\ [][NextH]_vars

(***************************************************************************)
(* The store calls under a request context.  Insert, Update and Delete     *)
(* take a ctx and hand context.Background() to the datastore client, so a  *)
(* cancellation of ctx while the call runs changes nothing of the call.    *)
(***************************************************************************)

\* Entries.Insert(ctx, ...), ctx cancelled while the call runs or not.
InsertCtx(cancel, content, title, t1, t2, ok) ==
    /\ Insert(content, title, t1, t2, ok)
    /\ cancelled' = cancel

\* Entries.Update(ctx, ...).
UpdateCtx(cancel, id, content, title, t, ok) ==
    /\ Update(id, content, title, t, ok)
    /\ cancelled' = cancel

\* Entries.Delete(ctx, id).
DeleteCtx(cancel, id, ok) ==
    /\ Delete(id, ok)
    /\ cancelled' = cancel

NextC ==
    \/ \E cancel \in BOOLEAN, c \in Contents, t \in Titles, ok \in BOOLEAN :
         \E t1 \in Readings(now) : \E t2 \in Readings(t1) :
           InsertCtx(cancel, c, t, t1, t2, ok)
    \/ \E cancel \in BOOLEAN, id \in KnownIds, c \in Contents, t \in Titles,
          ok \in BOOLEAN :
         \E x \in Readings(now) : UpdateCtx(cancel, id, c, t, x, ok)
    \/ \E cancel \in BOOLEAN, id \in KnownIds, ok \in BOOLEAN :
         DeleteCtx(cancel, id, ok)

SpecC == Init /\ [][NextC]_vars

(***************************************************************************)
(* indexHandler (and adminHandler for an admin): one page of the stream    *)
(* and the offset of the next page.  A reader follows that offset from 0   *)
(* with one limit while nobody writes.                                     *)
(***************************************************************************)

\* context.Offset: offset + limit, -1 when List returned fewer than limit.
NextOffset(entries, limit, offset) ==
    IF Len(entries) < limit THEN -1 ELSE offset + limit

\* indexHandler for ?limit=..&offset=..: List never returns an error, so the
\* page is always rendered.
IndexPage(limit, failAt) ==
    /\ walk.offset # -1
    /\ limit = walk.limit \/ walk = NoWalk
    /\ LET entries == List(store, limit, walk.offset, failAt)
       IN walk' = [limit |-> limit,
                   offset |-> NextOffset(entries, limit, walk.offset),
                   seen |-> walk.seen \o [i \in 1..Len(entries) |-> entries[i].ID],
                   cut |-> walk.cut \/
                           Len(entries) < Len(List(store, limit, walk.offset, NoFail))]
    /\ UNCHANGED <<store, now, req, writer, nreq, StoreHistory>>

NextP ==
    \/ /\ walk = NoWalk
       /\ \E c \in Contents, t \in Titles, ok \in BOOLEAN :
            \E t1 \in Readings(now) : \E t2 \in Readings(t1) : Insert(c, t, t1, t2, ok)
       /\ UNCHANGED cancelled
    \/ /\ walk = NoWalk
       /\ \E id \in KnownIds, ok \in BOOLEAN : Delete(id, ok)
       /\ UNCHANGED cancelled
    \/ \E limit \in 1..MaxLimit, f \in {NoFail} \cup 0..MaxLimit : IndexPage(limit, f)

SpecP == Init /\ [][NextP]_vars

(* ------------------------- reading the results ------------------------ *)
Drop(s, k) == SubSeq(s, k + 1, Len(s))

IDs(entries) == {entries[i].ID : i \in 1..Len(entries)}

\* The whole stream, as one List call without a read failure returns it.
ListAll(st) == List(st, Cardinality(DOMAIN st), 0, NoFail)

\* The place of id in a listing that holds it.
Pos(entries, id) == CHOOSE i \in 1..Len(entries) : entries[i].ID = id

InsertReturned == last.op = "Insert" /\ last.err = NoErr
UpdateReturned == last.op = "Update" /\ last.err = NoErr
DeleteReturned == last.op = "Delete" /\ last.err = NoErr

(* ------------------------------- claims ------------------------------- *)

\* C1: every successful Insert returns a non-empty id that no earlier Insert
\* returned, and so writes under a key that holds no entry yet.
CE_C1_FreshId ==
    [][InsertReturned' =>
         /\ last'.id # ""
         /\ last'.id \notin issued
         /\ last'.id \notin DOMAIN store]_vars

\* C2: Get on the id a successful Insert(c, t) returned gives an entry with
\* that id, content c, title t and an updated timestamp equal to created.
CE_C2_GetAfterCreate ==
    InsertReturned =>
        LET r == Get(store, last.id, TRUE)
        IN /\ r.err = NoErr
           /\ r.res[1].ID = last.id
           /\ r.res[1].content = last.content
           /\ r.res[1].title = last.title
           /\ "updated" \in DOMAIN r.res[1]
           /\ r.res[1].created = r.res[1].updated

\* List(n, 0) is what the claim C3 expects of it: min(n, live) entries, each a
\* different entry created and not deleted, with its id, title and content,
\* none older than an entry left out, in non-increasing created order.
ListsMostRecent(n) ==
    LET r == List(store, n, 0, NoFail)
    IN /\ Len(r) = Min(n, Len(live))
       /\ \A i, j \in 1..Len(r) : i < j => r[i].created >= r[j].created
       /\ \E f \in [1..Len(r) -> 1..Len(live)] :
            /\ \A i, j \in 1..Len(r) : i # j => f[i] # f[j]
            /\ \A i \in 1..Len(r) :
                 /\ r[i].ID = live[f[i]].id
                 /\ r[i].title = live[f[i]].title
                 /\ r[i].content = live[f[i]].content
            /\ \A g \in 1..Len(live) :
                 (\A i \in 1..Len(r) : f[i] # g) =>
                     \A i \in 1..Len(r) : live[g].created <= r[i].created

\* C3: after successful Inserts and Deletes only, List(n, 0) returns exactly
\* the min(n, live) most recently created live entries, each once, as created,
\* newest first (nothing on an empty store); n ranges from 0 to one more than
\* the number of live entries.
CE_C3_ListMostRecent ==
    ~edited => \A n \in 0..(Len(live) + 1) : ListsMostRecent(n)

C5_UpdateThenGet ==
    (UpdateReturned /\ last.existed) =>
        LET r == Get(store, last.id, TRUE)
        IN /\ r.err = NoErr
           /\ r.res[1].content = last.content
           /\ r.res[1].title = last.title

\* An Update has changed the content or the title of an inserted entry.
W_C5_UpdateThenGet ==
    /\ UpdateReturned
    /\ last.existed
    /\ \E g \in 1..Len(live) :
         /\ live[g].id = last.id
         /\ (live[g].content # last.content \/ live[g].title # last.title)

\* C6: an Update of a live entry leaves its created timestamp as it was.
CE_C6_UpdateKeepsCreated ==
    [][(UpdateReturned' /\ last'.existed) =>
         store'[last'.id].created = store[last'.id].created]_vars

\* C7: an Update never changes the order in which List returns two live
\* entries.
CE_C7_UpdateKeepsOrder ==
    [][(UpdateReturned' /\ last'.existed) =>
         \A a, b \in DOMAIN store :
             Pos(ListAll(store), a) < Pos(ListAll(store), b) =>
                 Pos(ListAll(store'), a) < Pos(ListAll(store'), b)]_vars

\* C8: every stored entry carries an updated timestamp, and created <= updated.
CE_C8_CreatedBeforeUpdated ==
    \A id \in DOMAIN store :
        /\ "updated" \in DOMAIN store[id]
        /\ store[id].created <= store[id].updated

\* C9: an Update of an id that is not in the store fails with NotFound (the
\* storage working) and no entry with that id exists afterwards.
CE_C9_UpdateMissing ==
    (last.op = "Update" /\ ~last.existed /\ last.err # StorageFailure) =>
        /\ last.err = NotFound
        /\ last.id \notin DOMAIN store

\* C10: after a successful Delete(id), Get(id) fails with NotFound, no List
\* call returns id, and every other entry is still stored and listed.
C10_DeleteRemoves ==
    [][DeleteReturned' =>
         /\ Get(store', last'.id, TRUE).err = NotFound
         /\ \A n \in 0..MaxN, k \in 0..MaxOff, f \in {NoFail} \cup 0..MaxN :
              last'.id \notin IDs(List(store', n, k, f))
         /\ \A other \in DOMAIN store \ {last'.id} :
              /\ other \in DOMAIN store'
              /\ store'[other] = store[other]
              /\ other \in IDs(ListAll(store'))]_vars

\* A Delete has removed a stored entry and left another one.
W_C10_DeleteRemoves == DeleteReturned /\ last.existed /\ DOMAIN store # {}

\* C11: a Delete of an id that is not in the store fails with NotFound (the
\* storage working), so the second of two Deletes of one id returns an error.
CE_C11_DeleteMissing ==
    (last.op = "Delete" /\ ~last.existed /\ last.err # StorageFailure) =>
        last.err = NotFound

(* ----------------------- claims on the HTTP layer ---------------------- *)

\* The request has got past its store write, which succeeded.
Written(q) ==
    /\ q.kind \in {"new", "update"}
    /\ q.pc \in {"links", "endpoint", "send", "hub", "done"}
    /\ q.admin
    /\ q.resp # "404"
    /\ ~q.werr

\* C12: once the delete of an id is acknowledged and is the latest write of
\* that id, no step of an edit request (or of anything but a create that
\* draws the same id again) makes Get find an entry with that id.
CE_C12_DeletePermanent ==
    [][\A id \in DOMAIN writer :
         (writer[id].kind = "delete" /\ Get(store', id, TRUE).err = NoErr) =>
             writer'[id].kind = "new"]_vars

\* C13: the stored entry of an id whose latest write was an update request
\* has the content and the title of that request, also when another update
\* request of the same id read the entry before that write and wrote earlier.
C13_LastUpdateWins ==
    \A id \in DOMAIN store \cap DOMAIN writer :
        writer[id].kind = "update" =>
            /\ store[id].content = writer[id].content
            /\ store[id].title = writer[id].title

\* Two update requests of one id with different contents and titles have
\* both written, and the one that wrote last (still in its notification
\* phase) had read the entry before the other one wrote.
W_C13_LastUpdateWins ==
    \E r1, r2 \in Reqs :
        /\ r1 # r2
        /\ req[r1].kind = "update" /\ req[r2].kind = "update"
        /\ Written(req[r1]) /\ Written(req[r2])
        /\ req[r1].id = req[r2].id
        /\ req[r1].id \in DOMAIN store
        /\ req[r1].content # req[r2].content
        /\ req[r1].title # req[r2].title
        /\ writer[req[r1].id] = Wrote(req[r1])
        /\ req[r1].pc # "done"
        /\ req[r1].raw[1].content # req[r2].content
        /\ req[r1].raw[1].title # req[r2].title

\* The events of kind ev that the request has sent out.
Events(q, ev) == {j \in 1..Len(q.log) : q.log[j].ev = ev}

\* The request is over and its link discovery had succeeded.
LinksFound(q) == q.pc = "done" /\ Events(q, "links") # {} /\ q.out # "parseerror"

\* The response of a request whose notification phase went through.
Expected(q) == IF q.werr THEN "500" ELSE IF q.kind = "new" THEN "302" ELSE "200"

\* C14: a create or update request whose store write failed sends out
\* nothing (no link discovery, endpoint discovery, send or hub notify) and is
\* answered with a failure.
CE_C14_WriteFailureStops ==
    \A r \in Reqs :
        req[r].werr =>
            /\ req[r].log = <<>>
            /\ (req[r].pc = "done" => req[r].resp = "500")

\* C15: a request that ended with an endpoint discovery failure has attempted
\* endpoint discovery for every link of its entry.
CE_C15_BadTargetSkipped ==
    \A r \in Reqs :
        (req[r].pc = "done" /\ req[r].out = "noendpoint") =>
            \A i \in 1..Len(LinksOf(req[r].content)) :
                \E j \in Events(req[r], "endpoint") :
                    req[r].log[j].link = LinksOf(req[r].content)[i]

\* C16: a request whose link discovery succeeded has, when it is over,
\* notified the hub exactly once.
CE_C16_HubOnce ==
    \A r \in Reqs :
        LinksFound(req[r]) => Cardinality(Events(req[r], "hub")) = 1

\* C17: a request whose hub notify failed (transport error or non-success
\* status) ends with the response it gets when the notify succeeds.
CE_C17_HubFailureIgnored ==
    \A r \in Reqs :
        (req[r].pc = "done" /\ req[r].out \in {"huberror", "hubbadstatus"}) =>
            req[r].resp = Expected(req[r])

\* C18: a send that fails (transport error or status >= 400) is not returned:
\* the request stays in sendWebMentions with its response untouched and goes
\* on to the endpoint of the next link, or to the hub after the last link.
C18_SendFailureGoesOn ==
    [][\A r \in Reqs :
         (req[r].pc = "send" /\ req'[r].out \in {"error", "status400"}) =>
             /\ req'[r].resp = req[r].resp
             /\ req'[r].idx = req[r].idx + 1
             /\ req'[r].pc = IF req[r].idx < Len(req[r].links) THEN "endpoint"
                             ELSE "hub"]_vars

\* One request is at the endpoint of its second link after the send for the
\* first failed on the transport, another at the hub after the send for its
\* last link got a status >= 400.
W_C18_SendFailureGoesOn ==
    \E r1, r2 \in Reqs :
        /\ req[r1].pc = "endpoint" /\ req[r1].idx = 2 /\ req[r1].out = "error"
        /\ req[r2].pc = "hub" /\ req[r2].out = "status400"
        /\ Cardinality(Events(req[r2], "send")) = Len(req[r2].links)

\* C19: the step in which link discovery fails with a parse error ends the
\* request's notification work (nothing but the discovery was sent out) and
\* leaves the store as it is.
C19_ParseErrorStops ==
    [][\A r \in Reqs :
         (req[r].pc = "links" /\ req'[r].out = "parseerror") =>
             /\ req'[r].pc = "done"
             /\ req'[r].log = <<Event("links", req[r], "")>>
             /\ store' = store]_vars

\* A request that wrote its entry is over after a parse error, and the entry
\* is in the store with the content and the title of the request.
W_C19_ParseErrorStops ==
    \E r \in Reqs :
        /\ req[r].pc = "done"
        /\ req[r].out = "parseerror"
        /\ Written(req[r])
        /\ req[r].id \in DOMAIN store
        /\ store[req[r].id].content = req[r].content
        /\ store[req[r].id].title = req[r].title

\* The store outcome of a request that is over.
StoreOutcome(q) ==
    IF q.resp = "404" THEN "notfound" ELSE IF q.werr THEN "failed" ELSE "written"

\* C20: two create requests, or two update requests, with the same form
\* values and the same store outcome get the same response, whatever their
\* notification phases did.
CE_C20_ResponseFromStoreOnly ==
    \A r1, r2 \in Reqs :
        (/\ req[r1].pc = "done" /\ req[r2].pc = "done"
         /\ req[r1].admin /\ req[r2].admin
         /\ req[r1].kind \in {"new", "update"}
         /\ req[r1].kind = req[r2].kind
         /\ req[r1].content = req[r2].content
         /\ req[r1].title = req[r2].title
         /\ StoreOutcome(req[r1]) = StoreOutcome(req[r2])) =>
            req[r1].resp = req[r2].resp

(* ------------------- claims on cancellation and paging ------------------ *)

\* C21: an Insert, Update or Delete whose ctx is cancelled while it runs
\* returns a cancellation error and leaves the store as it was.
CE_C21_CancelAborts ==
    [][(nops' # nops /\ cancelled') =>
         /\ last'.err = Canceled
         /\ store' = store]_vars

\* The events of kind ev that the request has sent out for link.
EventsFor(q, ev, link) == {j \in Events(q, ev) : q.log[j].link = link}

\* The latest event of a log that is not empty.
Latest(log) == log[Len(log)]

\* Every link a request may discover.
AllLinks ==
    UNION {{LinksOf(f[1])[i] : i \in 1..Len(LinksOf(f[1]))} : f \in Forms}

\* C22: a request never has more than one endpoint discovery nor more than
\* one send for a link, and every send follows at once on the successful
\* endpoint discovery for the same link.
C22_OneAttempt ==
    [][\A r \in Reqs :
         /\ \A link \in AllLinks :
              /\ Cardinality(EventsFor(req'[r], "endpoint", link)) <= 1
              /\ Cardinality(EventsFor(req'[r], "send", link)) <= 1
         /\ (Len(req'[r].log) > Len(req[r].log) /\ Latest(req'[r].log).ev = "send") =>
              /\ req[r].out = "endpoint"
              /\ Latest(req[r].log) = Event("endpoint", req[r], Latest(req'[r].log).link)]_vars

\* A request is over after the send for its first link and a failed endpoint
\* discovery for its second: one discovery for each, one send for the first,
\* none for the second.
W_C22_OneAttempt ==
    \E r \in Reqs :
        /\ req[r].pc = "done"
        /\ req[r].out = "noendpoint"
        /\ Cardinality(EventsFor(req[r], "endpoint", "l1")) = 1
        /\ Cardinality(EventsFor(req[r], "send", "l1")) = 1
        /\ Cardinality(EventsFor(req[r], "endpoint", "l2")) = 1
        /\ EventsFor(req[r], "send", "l2") = {}

\* Everything a request sends out when nothing fails: the link discovery,
\* then for each link in discovery order its endpoint discovery and its
\* send, then the hub notify.
FullLog(q) ==
    LET ls == LinksOf(q.content)
        n == Len(ls)
    IN [j \in 1..(2 * n + 2) |->
          IF j = 1 THEN Event("links", q, "")
          ELSE IF j = 2 * n + 2 THEN Event("hub", q, "")
          ELSE IF j % 2 = 0 THEN Event("endpoint", q, ls[j \div 2])
          ELSE Event("send", q, ls[(j - 1) \div 2])]

\* C23: a request sends nothing out before its store write has returned, and
\* what it has sent out is always an initial part of: link discovery, then
\* endpoint discovery and send for each link in discovery order, then the hub.
C23_StepsOrdered ==
    \A r \in Reqs :
        /\ req[r].pc \in {"idle", "insert", "get", "update", "delete"} =>
             req[r].log = <<>>
        /\ Len(req[r].log) <= Len(FullLog(req[r]))
        /\ req[r].log = SubSeq(FullLog(req[r]), 1, Len(req[r].log))

\* A request with two links has written its entry and gone through all its
\* steps up to the hub notify.
W_C23_StepsOrdered ==
    \E r \in Reqs :
        /\ Written(req[r])
        /\ Len(LinksOf(req[r].content)) = 2
        /\ req[r].log = FullLog(req[r])

\* C24: every send names as source the permalink of an entry that is in the
\* store when the send is made, and as target a link discovered for the
\* request.
CE_C24_SourceExists ==
    [][\A r \in Reqs :
         (req[r].pc = "send" /\ req'[r].pc # "send") =>
             /\ Latest(req'[r].log).source = permalinkFromId(req[r].id)
             /\ req[r].id \in DOMAIN store
             /\ \E i \in 1..Len(req[r].links) :
                  Latest(req'[r].log).link = req[r].links[i]]_vars

\* C26: a request that is not from an admin is answered with 401 in the step
\* it arrives in, which leaves the store as it is and sends nothing out.
C26_NotAdminDoesNothing ==
    [][\A r \in Reqs :
         (req[r].pc = "idle" /\ req'[r].pc # "idle" /\ ~req'[r].admin) =>
             /\ store' = store
             /\ req'[r].pc = "done"
             /\ req'[r].resp = "401"
             /\ req'[r].log = <<>>]_vars

\* Requests to create, to update and to delete that were not from an admin
\* have been answered, with an entry in the store.
W_C26_NotAdminDoesNothing ==
    /\ DOMAIN store # {}
    /\ \E r \in Reqs :
         /\ req[r].kind \in {"new", "update", "delete"}
         /\ ~req[r].admin
         /\ req[r].resp = "401"

\* C25: a List call returns a nil error whatever its iterator did, and what
\* it returns is an initial part of the listing without a failure: the same
\* as the complete listing of a smaller limit.
C25_ListNeverFails ==
    [][(last'.op = "List" /\ nops' # nops) =>
         LET full == List(store, last'.n, last'.offset, NoFail)
             got == Len(last'.res)
         IN /\ last'.err = NoErr
            /\ got <= Len(full)
            /\ last'.res = SubSeq(full, 1, got)
            /\ last'.res = List(store, got, last'.offset, NoFail)]_vars

\* A List has returned fewer entries than the store holds for it.
W_C25_ListNeverFails ==
    /\ last.op = "List"
    /\ Len(last.res) < Len(List(store, last.n, last.offset, NoFail))

\* The ids of the whole stream, newest first.
StreamIDs == [i \in 1..Len(ListAll(store)) |-> ListAll(store)[i].ID]

\* C27: a reader who followed the next-page offsets from 0 to the page
\* without a next page has seen every entry of the store once, newest first.
CE_C27_PagingComplete ==
    walk.offset = -1 => walk.seen = StreamIDs

====
